---- MODULE Spec2Model ----
(***************************************************************************)
(* MEDrecord FHIR R4 server: request handling, gateway authentication,     *)
(* role/scope checks and the Patient / Observation resource handlers.      *)
(*                                                                         *)
(* The repository holds two generations of the server.  A deployment runs  *)
(* one of them; the variable "stack" says which:                           *)
(*   "catchall"  : /api/fhir/[...path] route, the router that              *)
(*                 authenticates itself, handlers working on a             *)
(*                 FhirRequestContext, fhirError responses;                *)
(*   "versioned" : /api/fhir/[version]/[...path] route that authenticates  *)
(*                 and authorises before the registry router, handlers     *)
(*                 registered with registerResourceHandler, FhirErrors.    *)
(* Handle takes one HTTP request from arrival to the computed response;     *)
(* Respond returns it to the client and the server is idle again.          *)
(* audit_logs is append-only and never read by the server: the model keeps *)
(* the rows the current request appended (last.audit).                     *)
(* Every client the server creates carries the service-role key, which     *)
(* bypasses row-level security; the policies of the schema govern database *)
(* sessions of other roles.  RlsSpec is such a session selecting rows, and *)
(* rls is the last select it made.                                         *)
(* A request is not atomic: a handler awaits one database statement after  *)
(* the other, and the platform serves requests concurrently.  UpdateSpec   *)
(* interleaves the statements of concurrent updates of one Patient;        *)
(* updating holds what each of them has read and the responses sent.       *)
(***************************************************************************)
EXTENDS Integers, Sequences, FiniteSets, TLC

VARIABLES stack, patients, observations, last, lastCreate, rls, updating

vars == <<stack, patients, observations, last, lastCreate, rls, updating>>

NONE == "none"

\* ---------------------------------------------------------------- bounds
MaxVersion == 2
\* successful and running updates of UpdateSpec
MaxUpdates == 3

\* ---------------------------------------------------------------- domains
Stacks == {"catchall", "versioned"}
Tenants == {"t1", "t2"}
Methods == {"GET", "POST", "PUT", "DELETE"}
SUPPORTED_VERSIONS == {"4_0_1", "R4"}
Versions == {"4_0_1", "STU3"}
PathTypes == {"Patient", "Observation", "Device", "metadata", "CapabilityStatement"}
\* rows are stored for tenant t1 only
DataTenants == {"t1"}
PatientRids == {"p1", "p2"}
ObservationRids == {"o1"}
\* identifiers gen_random_uuid() hands out, per table
PatientUuids == <<"pu1", "pu2", "pu3">>
ObservationUuids == <<"ou1", "ou2">>
\* identifiers crypto.randomUUID() hands out for a resource sent without id
GeneratedPatientIds == <<"p2">>
GeneratedObservationIds == <<"o1">>
VersionStrings == <<"1", "2", "3", "4", "5", "6">>

\* String(row.version_id)
String(n) == VersionStrings[n]

\* ---------------------------------------------------------------- FHIR JSON
NoMeta == [present |-> FALSE, versionId |-> NONE, profile |-> NONE]

ClientMeta == [present |-> TRUE, versionId |-> "9", profile |-> NONE]

Resource(rt, id, meta, active, subject, text) ==
  [resourceType |-> rt, id |-> id, meta |-> meta, active |-> active,
   subject |-> subject, status |-> IF rt = "Observation" THEN "final" ELSE NONE,
   code |-> IF rt = "Observation" THEN "loinc" ELSE NONE, text |-> text]

PatientBodies ==
  { Resource("Patient", "p1", NoMeta, NONE, NONE, "x"),
    Resource("Patient", "p1", ClientMeta, NONE, NONE, "x"),
    Resource("Patient", NONE, NoMeta, NONE, NONE, "x") }

ObservationBodies ==
  { Resource("Observation", "o1", NoMeta, NONE, "p1", "x"),
    Resource("Observation", "o1", NoMeta, NONE, "p2", "x"),
    Resource("Observation", NONE, NoMeta, NONE, "p1", "x") }

Bodies == PatientBodies \cup ObservationBodies

NoBody == Resource(NONE, NONE, NoMeta, NONE, NONE, NONE)

\* ---------------------------------------------------------------- trace of a request
\* What the server did while handling the request, in order: a call to the
\* gateway, a database statement (with the tenant it is scoped to), the
\* invocation of a resource-handler operation, CapabilityStatement generation.
Op(kind, table, verb, tenant) == [kind |-> kind, table |-> table, verb |-> verb, tenant |-> tenant]

GatewayCall == Op("gateway", NONE, "GET /api/user/me", NONE)

DbOp(table, verb, tenant) == Op("db", table, verb, tenant)

HandlerOp(rtype, operation) == Op("handler", rtype, operation, NONE)

CapabilityOp == Op("capability", NONE, "generate", NONE)

\* ---------------------------------------------------------------- static tables
\* user_mappings and care_relationships have no endpoint; their rows are fixed.
user_mappings ==
  { [tenant_id |-> "t1", gateway_user_id |-> "pa", patient_id |-> "pu1", practitioner_id |-> NONE],
    [tenant_id |-> "t1", gateway_user_id |-> "pr", patient_id |-> NONE, practitioner_id |-> "pr1"] }

care_relationships ==
  { [tenant_id |-> "t1", practitioner_id |-> "pr1", patient_id |-> "pu1", active |-> TRUE] }

\* ---------------------------------------------------------------- gateway replies
UserRoles == {"super_admin", "tenant_admin", "practitioner", "patient", "researcher", "dev"}

GatewayFail ==
  [ok |-> FALSE, id |-> NONE, role |-> NONE, tenantId |-> NONE, patientId |-> NONE, practitionerId |-> NONE]

GatewayOk(id, role, tenantId, patientId, practitionerId) ==
  [ok |-> TRUE, id |-> id, role |-> role, tenantId |-> tenantId,
   patientId |-> patientId, practitionerId |-> practitionerId]

\* The replies of GET /api/user/me the model draws from: one user per role
\* in tenant t1, a patient user without a patient record, a role the server
\* does not know, and a reply without tenantId.
GatewayReplies ==
  { GatewayFail,
    GatewayOk("sa", "super_admin", "t1", NONE, NONE),
    GatewayOk("ta", "tenant_admin", "t1", NONE, NONE),
    GatewayOk("pr", "practitioner", "t1", NONE, "pr1"),
    GatewayOk("pa", "patient", "t1", "pu1", NONE),
    GatewayOk("pa0", "patient", "t1", NONE, NONE),
    GatewayOk("re", "researcher", "t1", NONE, NONE),
    GatewayOk("dv", "dev", "t1", NONE, NONE),
    GatewayOk("gx", "guest", "t1", NONE, NONE),
    GatewayOk("nt", "practitioner", NONE, NONE, "pr1") }

Creds == {"none", "cookie"}

NoUser ==
  [id |-> NONE, role |-> NONE, tenantId |-> NONE, patientId |-> NONE,
   practitionerId |-> NONE, scopes |-> {}]

\* ---------------------------------------------------------------- gateway auth, catch-all stack
Scope(context, resource, action) == [context |-> context, resource |-> resource, action |-> action]

ClinicalScopeTypes ==
  {"Patient", "Observation", "Condition", "AllergyIntolerance", "MedicationRequest", "Encounter"}

mapRoleToScopes(role) ==
  CASE role \in {"super_admin", "tenant_admin"} -> {Scope("system", "*", "*")}
    [] role = "practitioner" ->
         {Scope("user", t, a) : t \in ClinicalScopeTypes, a \in {"read", "write"}}
    [] role = "patient" -> {Scope("patient", t, "read") : t \in ClinicalScopeTypes}
    [] role = "researcher" -> {Scope("user", "Observation", "read"), Scope("user", "Condition", "read")}
    [] role = "dev" -> {Scope("system", "*", "read")}
    [] OTHER -> {}

getUserMapping(gatewayUserId, tenantId, selectFails) ==
  LET rows == {m \in user_mappings : m.gateway_user_id = gatewayUserId /\ m.tenant_id = tenantId}
  IN IF selectFails \/ Cardinality(rows) # 1
       THEN [patientId |-> NONE, practitionerId |-> NONE]
       ELSE LET m == CHOOSE r \in rows : TRUE
            IN [patientId |-> m.patient_id, practitionerId |-> m.practitioner_id]

\* validateGatewayAuth with the user_mappings lookup issued before the
\* gateway's answer is looked at
validateGatewayAuth_lookupFirst(cred, reply, selectFails) ==
  [user |-> NoUser, ops |-> <<GatewayCall, DbOp("user_mappings", "select", reply.tenantId)>>]

\* validateGatewayAuth of the catch-all stack: [user, ops]; user = NoUser is null.
validateGatewayAuth_c(cred, reply, selectFails) ==
  IF cred = "none" THEN [user |-> NoUser, ops |-> <<>>]
  ELSE IF ~reply.ok THEN [user |-> NoUser, ops |-> <<GatewayCall>>]
  ELSE IF reply.id = NONE \/ reply.tenantId = NONE THEN [user |-> NoUser, ops |-> <<GatewayCall>>]
  ELSE LET role == IF reply.role \in UserRoles THEN reply.role ELSE "dev"
           mapping == getUserMapping(reply.id, reply.tenantId, selectFails)
       IN [user |-> [id |-> reply.id, role |-> role, tenantId |-> reply.tenantId,
                     patientId |-> mapping.patientId, practitionerId |-> mapping.practitionerId,
                     scopes |-> mapRoleToScopes(role)],
           ops |-> <<GatewayCall, DbOp("user_mappings", "select", reply.tenantId)>>]

hasScope_c(user, resourceType, action) ==
  IF user.role \in {"super_admin", "tenant_admin"} THEN TRUE
  ELSE \E scope \in user.scopes :
         /\ scope.resource = "*" \/ scope.resource = resourceType
         /\ scope.action = "*" \/ scope.action = action
         /\ ~(scope.context = "patient" /\ user.role # "patient")

hasCareRelationship(tenantId, practitionerId, patientId, selectFails) ==
  LET rows == {c \in care_relationships :
                 /\ c.tenant_id = tenantId
                 /\ c.practitioner_id = practitionerId
                 /\ c.patient_id = patientId
                 /\ c.active}
  IN ~selectFails /\ Cardinality(rows) = 1

canAccessPatient(user, patientId, selectFails) ==
  IF user.role \in {"super_admin", "tenant_admin"} THEN TRUE
  ELSE IF user.role = "patient" THEN user.patientId = patientId
  ELSE IF user.role = "practitioner" /\ user.practitionerId # NONE
    THEN hasCareRelationship(user.tenantId, user.practitionerId, patientId, selectFails)
  ELSE IF user.role = "researcher" THEN TRUE
  ELSE IF user.role = "dev" THEN TRUE
  ELSE FALSE

\* the care_relationships lookup canAccessPatient issues, if any
canAccessPatientOps(user) ==
  IF user.role = "practitioner" /\ user.practitionerId # NONE
    THEN <<DbOp("care_relationships", "select", user.tenantId)>>
    ELSE <<>>

extractTenantId(headerTenant, user) ==
  IF user.role = "super_admin" /\ headerTenant # NONE THEN headerTenant ELSE user.tenantId

\* ---------------------------------------------------------------- gateway auth, versioned stack
mapGatewayRole(role) ==
  CASE role \in {"super_admin", "superadmin"} -> "super_admin"
    [] role \in {"tenant_admin", "tenantadmin", "admin"} -> "tenant_admin"
    [] role \in {"practitioner", "doctor", "nurse"} -> "practitioner"
    [] role = "patient" -> "patient"
    [] role = "researcher" -> "researcher"
    [] role \in {"dev", "developer"} -> "dev"
    [] OTHER -> "patient"

\* validateGatewayAuth of the versioned stack: the gateway is always called,
\* and a reply without tenantId falls back to the X-Tenant-ID header, then ''.
validateGatewayAuth_v(reply, headerTenant) ==
  IF ~reply.ok THEN [user |-> NoUser, ops |-> <<GatewayCall>>]
  ELSE [user |-> [id |-> reply.id, role |-> mapGatewayRole(reply.role),
                  tenantId |-> IF reply.tenantId # NONE THEN reply.tenantId
                               ELSE IF headerTenant # NONE THEN headerTenant ELSE "",
                  patientId |-> reply.patientId, practitionerId |-> reply.practitionerId,
                  scopes |-> {}],
        ops |-> <<GatewayCall>>]

ClinicalResources ==
  {"Patient", "Observation", "Condition", "AllergyIntolerance", "MedicationRequest",
   "Encounter", "Procedure"}

PatientResources ==
  {"Patient", "Observation", "Condition", "AllergyIntolerance", "MedicationRequest", "Encounter"}

\* a scope table in which every role may read and write
hasScope_readWrite(user, resourceType, operation) == operation # "delete"

hasScope_v(user, resourceType, operation) ==
  IF user.role \in {"super_admin", "tenant_admin"} THEN TRUE
  ELSE IF user.role = "practitioner"
    THEN IF resourceType \in ClinicalResources THEN operation # "delete" ELSE FALSE
  ELSE IF user.role = "patient"
    THEN resourceType \in PatientResources /\ operation = "read"
  ELSE IF user.role = "researcher" THEN operation = "read"
  ELSE IF user.role = "dev" THEN operation = "read"
  ELSE FALSE

\* ---------------------------------------------------------------- responses
Issue(severity, code) == [severity |-> severity, code |-> code]

ETag(versionId) == <<"W/", versionId>>

NoETag == <<>>

Response(status, kind, issue, body, entries, etag) ==
  [status |-> status, kind |-> kind, issue |-> issue, body |-> body,
   entries |-> entries, etag |-> etag]

NoResponse == Response(0, NONE, <<>>, NoBody, {}, NoETag)

\* issueCodeMap[httpStatus] || 'exception'   (src/src/lib/fhir/utils/response.ts)
issueCodeMap(httpStatus) ==
  CASE httpStatus = 400 -> "invalid"
    [] httpStatus = 401 -> "login"
    [] httpStatus = 403 -> "forbidden"
    [] httpStatus = 404 -> "not-found"
    [] httpStatus = 405 -> "not-supported"
    [] httpStatus = 409 -> "conflict"
    [] httpStatus = 410 -> "deleted"
    [] httpStatus = 412 -> "conflict"
    [] httpStatus = 422 -> "processing"
    [] httpStatus = 500 -> "exception"
    [] httpStatus = 501 -> "not-supported"
    [] httpStatus = 503 -> "transient"
    [] OTHER -> "exception"

buildOperationOutcome(severity, httpStatus) == <<Issue(severity, issueCodeMap(httpStatus))>>

fhirError(status) ==
  Response(status, "OperationOutcome",
           buildOperationOutcome(IF status >= 500 THEN "fatal" ELSE "error", status),
           NoBody, {}, NoETag)

\* fhirResponse of the catch-all stack: ETag from the resource's meta.versionId
fhirResponse_c(resource, status) ==
  Response(status, resource.resourceType, <<>>, resource, {},
           IF resource.meta.present /\ resource.meta.versionId # NONE
             THEN ETag(resource.meta.versionId) ELSE NoETag)

\* a 201 that carries the resource without the meta the server assigned
fhirCreated_withoutMeta(resource) == fhirResponse_c([resource EXCEPT !.meta = NoMeta], 201)

fhirCreated(resource) == fhirResponse_c(resource, 201)

fhirNoContent == Response(204, NONE, <<>>, NoBody, {}, NoETag)

buildSearchBundle(resources) == Response(200, "Bundle", <<>>, NoBody, resources, NoETag)

\* operationOutcome / FhirErrors of the versioned stack (src/lib/fhir/response.ts)
operationOutcome(severity, code, status) ==
  Response(status, "OperationOutcome", <<Issue(severity, code)>>, NoBody, {}, NoETag)

FhirErrors_unauthorized == operationOutcome("error", "login", 401)

FhirErrors_forbidden == operationOutcome("error", "forbidden", 403)

FhirErrors_notFound == operationOutcome("error", "not-found", 404)

FhirErrors_badRequest == operationOutcome("error", "invalid", 400)

FhirErrors_serverError == operationOutcome("fatal", "exception", 500)

FhirErrors_methodNotAllowed == operationOutcome("error", "not-supported", 405)

FhirErrors_unsupportedResource == operationOutcome("error", "not-supported", 400)

fhirResponse_v(resource, status) ==
  Response(status, resource.resourceType, <<>>, resource, {}, NoETag)

bundleResponse(resources) == Response(200, "Bundle", <<>>, NoBody, resources, NoETag)

withVersionHeaders(response, versionId) == [response EXCEPT !.etag = ETag(versionId)]

createdResponse(resource) == fhirResponse_v(resource, 201)

CapabilityStatement ==
  Resource("CapabilityStatement", "medrecord-fhir-server", NoMeta, NONE, NONE, NONE)

getCapabilityStatement ==
  Response(200, "CapabilityStatement", <<>>, CapabilityStatement, {}, NoETag)

\* ---------------------------------------------------------------- database
\* Rows of patients:     [id, tenant_id, resource_id, version_id, active, patient_id, resource]
\* Rows of observations: the same record; patient_id is the internal id of the
\* patient row, active is unused (TRUE).  patients rows carry patient_id = NONE.
Row(id, tenant_id, resource_id, version_id, active, patient_id, resource) ==
  [id |-> id, tenant_id |-> tenant_id, resource_id |-> resource_id,
   version_id |-> version_id, active |-> active, patient_id |-> patient_id,
   resource |-> resource]

\* gen_random_uuid() / crypto.randomUUID(): the first identifier not in use
FirstUnused(ids, used) ==
  ids[CHOOSE i \in 1..Len(ids) : ids[i] \notin used /\ \A j \in 1..(i - 1) : ids[j] \in used]

HasUnused(ids, used) == \E i \in 1..Len(ids) : ids[i] \notin used

\* .single(): an error unless exactly one row matches
Single(rows, selectFails) ==
  IF selectFails \/ Cardinality(rows) # 1
    THEN [error |-> TRUE, rows |-> {}]
    ELSE [error |-> FALSE, rows |-> rows]

TheRow(result) == CHOOSE r \in result.rows : TRUE

\* INSERT ... RETURNING under UNIQUE(tenant_id, resource_id); the columns the
\* statement leaves out take their defaults (id, version_id 1).
Insert(table, uuids, row, writeFails) ==
  IF writeFails THEN [error |-> "error", table |-> table, rows |-> {}]
  ELSE IF \E r \in table : r.tenant_id = row.tenant_id /\ r.resource_id = row.resource_id
    THEN [error |-> "23505", table |-> table, rows |-> {}]
  ELSE LET new == [row EXCEPT !.id = FirstUnused(uuids, {r.id : r \in table})]
       IN [error |-> NONE, table |-> table \cup {new}, rows |-> {new}]

\* a schema without the version trigger: the row is stored as the statement
\* set it
increment_version_id_absent(old, new) == new

\* increment_version_id(): BEFORE UPDATE trigger, NEW.version_id = OLD.version_id + 1
increment_version_id(old, new) == [new EXCEPT !.version_id = old.version_id + 1]

\* UPDATE ... WHERE id = ... RETURNING; the trigger runs on the row before it is stored
Update(table, id, new, writeFails) ==
  LET olds == {r \in table : r.id = id}
  IN IF writeFails \/ olds = {} THEN [error |-> "error", table |-> table, rows |-> {}]
     ELSE LET old == CHOOSE r \in olds : TRUE
              stored == increment_version_id(old, new)
          IN [error |-> NONE, table |-> (table \ {old}) \cup {stored}, rows |-> {stored}]

Delete(table, id, writeFails) ==
  IF writeFails THEN [error |-> "error", table |-> table]
  ELSE [error |-> NONE, table |-> {r \in table : r.id # id}]

\* the result of a handler operation
Result(resp, pats, obs, ops) == [resp |-> resp, patients |-> pats, observations |-> obs, ops |-> ops]

\* createTenantClient(user): three set_config calls with the user's own tenant
createTenantClient(user) == <<Op("db", "set_config", "rpc", user.tenantId)>>

\* ---------------------------------------------------------------- row-level security (001-fhir-schema.sql)
\* tables with ENABLE ROW LEVEL SECURITY that carry a tenant_id column
RlsTables ==
  {"patients", "practitioners", "organizations", "observations", "conditions",
   "allergy_intolerances", "medication_requests", "encounters", "care_relationships",
   "audit_logs", "user_mappings"}

PatientLinkedTables ==
  {"observations", "conditions", "allergy_intolerances", "medication_requests", "encounters"}

\* the settings of a database session; "" is a setting that was never set
Session(tenant_id, user_role, gateway_user_id) ==
  [tenant_id |-> tenant_id, user_role |-> user_role, gateway_user_id |-> gateway_user_id]

current_tenant_id(session) ==
  IF session.tenant_id = "" THEN "00000000-0000-0000-0000-000000000000" ELSE session.tenant_id

current_user_role(session) == IF session.user_role = "" THEN "anonymous" ELSE session.user_role

current_gateway_user_id(session) == session.gateway_user_id

\* SELECT ... FROM user_mappings WHERE ... LIMIT 1; NONE is NULL
CurrentMapping(session) ==
  {m \in user_mappings : /\ m.gateway_user_id = current_gateway_user_id(session)
                         /\ m.tenant_id = current_tenant_id(session)}

current_user_patient_id(session) ==
  IF CurrentMapping(session) = {} THEN NONE
  ELSE (CHOOSE m \in CurrentMapping(session) : TRUE).patient_id

current_user_practitioner_id(session) ==
  IF CurrentMapping(session) = {} THEN NONE
  ELSE (CHOOSE m \in CurrentMapping(session) : TRUE).practitioner_id

\* a comparison with NULL is not true
SqlEq(a, b) == a # NONE /\ b # NONE /\ a = b

has_care_relationship(session, p_patient_id) ==
  \E c \in care_relationships :
    /\ SqlEq(c.patient_id, p_patient_id)
    /\ SqlEq(c.practitioner_id, current_user_practitioner_id(session))
    /\ c.tenant_id = current_tenant_id(session)
    /\ c.active

\* a row as the policies see it: the columns their USING clauses mention
RlsRow(tenant_id, id, patient_id, practitioner_id, gateway_user_id) ==
  [tenant_id |-> tenant_id, id |-> id, patient_id |-> patient_id,
   practitioner_id |-> practitioner_id, gateway_user_id |-> gateway_user_id]

\* USING clauses of the policies FOR ALL / FOR SELECT, per table; a row is
\* visible when one of the table's policies admits it
patients_policies(session, row) ==
  \/ current_user_role(session) = "super_admin"
  \/ current_user_role(session) = "tenant_admin" /\ row.tenant_id = current_tenant_id(session)
  \/ /\ current_user_role(session) = "practitioner"
     /\ row.tenant_id = current_tenant_id(session)
     /\ has_care_relationship(session, row.id)
  \/ /\ current_user_role(session) = "patient"
     /\ row.tenant_id = current_tenant_id(session)
     /\ SqlEq(row.id, current_user_patient_id(session))
  \/ current_user_role(session) = "researcher" /\ row.tenant_id = current_tenant_id(session)
  \/ current_user_role(session) = "dev" /\ row.tenant_id = current_tenant_id(session)

patient_linked_policies(session, row) ==
  \/ current_user_role(session) = "super_admin"
  \/ current_user_role(session) = "tenant_admin" /\ row.tenant_id = current_tenant_id(session)
  \/ /\ current_user_role(session) = "practitioner"
     /\ row.tenant_id = current_tenant_id(session)
     /\ has_care_relationship(session, row.patient_id)
  \/ /\ current_user_role(session) = "patient"
     /\ row.tenant_id = current_tenant_id(session)
     /\ SqlEq(row.patient_id, current_user_patient_id(session))
  \/ current_user_role(session) = "researcher" /\ row.tenant_id = current_tenant_id(session)
  \/ current_user_role(session) = "dev" /\ row.tenant_id = current_tenant_id(session)

generally_readable_policies(session, row) ==
  \/ current_user_role(session) = "super_admin"
  \/ current_user_role(session) = "tenant_admin" /\ row.tenant_id = current_tenant_id(session)
  \/ /\ current_user_role(session) \in {"practitioner", "patient", "researcher", "dev"}
     /\ row.tenant_id = current_tenant_id(session)

care_relationships_policies(session, row) ==
  \/ current_user_role(session) = "super_admin"
  \/ current_user_role(session) = "tenant_admin" /\ row.tenant_id = current_tenant_id(session)
  \/ /\ current_user_role(session) = "practitioner"
     /\ row.tenant_id = current_tenant_id(session)
     /\ SqlEq(row.practitioner_id, current_user_practitioner_id(session))
  \/ /\ current_user_role(session) = "patient"
     /\ row.tenant_id = current_tenant_id(session)
     /\ SqlEq(row.patient_id, current_user_patient_id(session))

audit_logs_policies(session, row) ==
  \/ current_user_role(session) = "super_admin"
  \/ current_user_role(session) = "tenant_admin" /\ row.tenant_id = current_tenant_id(session)

user_mappings_policies(session, row) ==
  \/ current_user_role(session) = "super_admin"
  \/ current_user_role(session) = "tenant_admin" /\ row.tenant_id = current_tenant_id(session)
  \/ row.gateway_user_id = current_gateway_user_id(session)

\* whether a SELECT on the table by the session returns the row
Visible(table, session, row) ==
  CASE table = "patients" -> patients_policies(session, row)
    [] table \in PatientLinkedTables -> patient_linked_policies(session, row)
    [] table \in {"practitioners", "organizations"} -> generally_readable_policies(session, row)
    [] table = "care_relationships" -> care_relationships_policies(session, row)
    [] table = "audit_logs" -> audit_logs_policies(session, row)
    [] table = "user_mappings" -> user_mappings_policies(session, row)
    [] OTHER -> FALSE

NoSelect ==
  [table |-> NONE, session |-> Session("", "", ""),
   row |-> RlsRow(NONE, NONE, NONE, NONE, NONE), visible |-> FALSE]

\* ---------------------------------------------------------------- search pagination
\* parseInt(value, 10) of the _count values the model sends
parseInt(value) ==
  CASE value = "1" -> [nan |-> FALSE, value |-> 1]
    [] value = "200" -> [nan |-> FALSE, value |-> 200]
    [] OTHER -> [nan |-> TRUE, value |-> 0]

\* extractPagination(params).count of the catch-all stack; offset is 0
extractPagination(searchParams) ==
  LET count == IF searchParams.count # NONE THEN parseInt(searchParams.count)
               ELSE [nan |-> FALSE, value |-> 50]
  IN IF count.nan \/ count.value < 1 THEN 50
     ELSE IF count.value < 1000 THEN count.value ELSE 1000

\* query.range(from, to) in the trace of the request
RangeOp(table, from, to) ==
  [kind |-> "range", table |-> table, verb |-> "range", tenant |-> NONE, from |-> from, to |-> to]

\* .range(0, count - 1).order('last_updated'): the first count rows.  Rows
\* carry no last_updated in the model; its order is that of the rows'
\* creation (uuids) or the reverse, as the request's environment decides.
Page(rows, uuids, count, searchParams) ==
  LET pos(id) == CHOOSE i \in 1..Len(uuids) : uuids[i] = id
      before(a, b) == IF searchParams.order = "reversed" THEN pos(a) > pos(b) ELSE pos(a) < pos(b)
  IN {r \in rows : Cardinality({q \in rows : before(q.id, r.id)}) < count}

\* ---------------------------------------------------------------- catch-all stack: Patient handler
NL_CORE_PATIENT_PROFILE == "nl-core-Patient"

RowMeta(version_id, profile) == [present |-> TRUE, versionId |-> String(version_id), profile |-> profile]

\* { ...patient, resourceType, id: row.resource_id, meta: { ...patient.meta, versionId, profile } }
toFhirPatient_c(row) ==
  [row.resource EXCEPT !.resourceType = "Patient", !.id = row.resource_id,
                       !.meta = RowMeta(row.version_id, NL_CORE_PATIENT_PROFILE)]

\* patient.active ?? true
ActiveOf(patient) == IF patient.active = NONE THEN TRUE ELSE patient.active = "true"

toDbRow_patient(patient, tenantId, pats) ==
  Row(NONE, tenantId,
      IF patient.id # NONE THEN patient.id
      ELSE FirstUnused(GeneratedPatientIds, {r.resource_id : r \in pats}),
      1, ActiveOf(patient), NONE, patient)

search_patient_c(searchParams, user, tenantId, selectFails, pats, obs) ==
  LET count == extractPagination(searchParams)
      ops == <<HandlerOp("Patient", "search")>> \o createTenantClient(user)
               \o <<DbOp("patients", "select", tenantId), RangeOp("patients", 0, count - 1)>>
      matching == {r \in pats :
                 /\ r.tenant_id = tenantId
                 /\ r.active
                 /\ (user.role = "patient" /\ user.patientId # NONE) => r.id = user.patientId}
      rows == Page(matching, PatientUuids, count, searchParams)
  IN IF selectFails THEN Result(fhirError(500), pats, obs, ops)
     ELSE Result(buildSearchBundle({toFhirPatient_c(r) : r \in rows}), pats, obs, ops)

read_patient_c(id, user, tenantId, selectFails, pats, obs) ==
  LET ops == <<HandlerOp("Patient", "read")>> \o createTenantClient(user)
               \o <<DbOp("patients", "select", tenantId)>>
      found == Single({r \in pats : r.tenant_id = tenantId /\ r.resource_id = id}, selectFails)
  IN IF found.error \/ found.rows = {} THEN Result(fhirError(404), pats, obs, ops)
     ELSE LET data == TheRow(found)
              ops2 == ops \o canAccessPatientOps(user)
          IN IF ~canAccessPatient(user, data.id, selectFails)
               THEN Result(fhirError(403), pats, obs, ops2)
               ELSE Result(fhirResponse_c(toFhirPatient_c(data), 200), pats, obs, ops2)

create_patient_c(resource, user, tenantId, writeFails, pats, obs) ==
  LET ops0 == <<HandlerOp("Patient", "create")>>
  IN IF resource.resourceType # "Patient" THEN Result(fhirError(400), pats, obs, ops0)
     ELSE LET row == toDbRow_patient(resource, tenantId, pats)
              patient == [resource EXCEPT !.id = row.resource_id]
              ins == Insert(pats, PatientUuids, [row EXCEPT !.resource = patient], writeFails)
              ops == ops0 \o createTenantClient(user) \o <<DbOp("patients", "insert", tenantId)>>
          IN IF ins.error = "23505" THEN Result(fhirError(409), pats, obs, ops)
             ELSE IF ins.error # NONE THEN Result(fhirError(500), pats, obs, ops)
             ELSE Result(fhirCreated(toFhirPatient_c(TheRow(ins))), ins.table, obs, ops)

update_patient_c(id, resource, user, tenantId, selectFails, writeFails, pats, obs) ==
  LET ops0 == <<HandlerOp("Patient", "update")>>
  IN IF resource.resourceType # "Patient" THEN Result(fhirError(400), pats, obs, ops0)
     ELSE IF resource.id # NONE /\ resource.id # id THEN Result(fhirError(400), pats, obs, ops0)
     ELSE
       LET patient == [resource EXCEPT !.id = id]
           ops1 == ops0 \o createTenantClient(user) \o <<DbOp("patients", "select", tenantId)>>
           found == Single({r \in pats : r.tenant_id = tenantId /\ r.resource_id = id}, selectFails)
       IN IF found.error \/ found.rows = {} THEN Result(fhirError(404), pats, obs, ops1)
          ELSE
            LET existing == TheRow(found)
                ops2 == ops1 \o canAccessPatientOps(user)
            IN IF ~canAccessPatient(user, existing.id, selectFails)
                 THEN Result(fhirError(403), pats, obs, ops2)
                 ELSE
                   LET row == toDbRow_patient(patient, tenantId, pats)
                       upd == Update(pats, existing.id,
                                     [row EXCEPT !.id = existing.id,
                                                 !.version_id = existing.version_id + 1],
                                     writeFails)
                       ops3 == ops2 \o <<DbOp("patients", "update", existing.tenant_id)>>
                   IN IF upd.error # NONE THEN Result(fhirError(500), pats, obs, ops3)
                      ELSE Result(fhirResponse_c(toFhirPatient_c(TheRow(upd)), 200),
                                  upd.table, obs, ops3)

\* a delete that removes the row
deletePatient_hard(id, user, tenantId, selectFails, writeFails, pats, obs) ==
  Result(fhirNoContent, {r \in pats : ~(r.tenant_id = tenantId /\ r.resource_id = id)}, obs,
         <<HandlerOp("Patient", "delete")>>)

\* soft delete: UPDATE patients SET active = false
deletePatient(id, user, tenantId, selectFails, writeFails, pats, obs) ==
  LET ops1 == <<HandlerOp("Patient", "delete")>> \o createTenantClient(user)
                \o <<DbOp("patients", "select", tenantId)>>
      found == Single({r \in pats : r.tenant_id = tenantId /\ r.resource_id = id}, selectFails)
  IN IF found.error \/ found.rows = {} THEN Result(fhirError(404), pats, obs, ops1)
     ELSE
       LET existing == TheRow(found)
           ops2 == ops1 \o canAccessPatientOps(user)
       IN IF ~canAccessPatient(user, existing.id, selectFails)
            THEN Result(fhirError(403), pats, obs, ops2)
            ELSE
              LET upd == Update(pats, existing.id, [existing EXCEPT !.active = FALSE], writeFails)
                  ops3 == ops2 \o <<DbOp("patients", "update", existing.tenant_id)>>
              IN IF upd.error # NONE THEN Result(fhirError(500), pats, obs, ops3)
                 ELSE Result(fhirNoContent, upd.table, obs, ops3)

\* ---------------------------------------------------------------- catch-all stack: Observation handler
\* { ...observation, resourceType, id: row.resource_id, meta: { ...observation.meta, versionId } }
toFhirObservation_c(row) ==
  [row.resource EXCEPT !.resourceType = "Observation", !.id = row.resource_id,
                       !.meta = RowMeta(row.version_id, row.resource.meta.profile)]

getProfile(observation) == "nl-core-LaboratoryTestResult"

\* subject.reference "Patient/{id}" is kept in the model as the id it names
extractPatientId(subject) == subject

\* toDbRow of the Observation handler: NoRow when the subject names no patient of the tenant
NoRow == Row(NONE, NONE, NONE, 0, FALSE, NONE, NoBody)

toDbRow_observation(observation, tenantId, selectFails, pats, obs) ==
  LET patientResourceId == extractPatientId(observation.subject)
      found == Single({r \in pats : r.tenant_id = tenantId /\ r.resource_id = patientResourceId},
                      selectFails)
  IN IF patientResourceId = NONE THEN NoRow
     ELSE IF found.rows = {} THEN NoRow
     ELSE Row(NONE, tenantId,
              IF observation.id # NONE THEN observation.id
              ELSE FirstUnused(GeneratedObservationIds, {r.resource_id : r \in obs}),
              1, TRUE, TheRow(found).id, observation)

toDbRowOps(observation, tenantId) ==
  IF extractPatientId(observation.subject) = NONE THEN <<>>
  ELSE <<DbOp("patients", "select", tenantId)>>

search_observation_c(searchParams, user, tenantId, selectFails, pats, obs) ==
  LET count == extractPagination(searchParams)
      ops1 == <<HandlerOp("Observation", "search")>> \o createTenantClient(user)
      isPractitioner == user.role = "practitioner" /\ user.practitionerId # NONE
      carePatients == IF selectFails THEN {}
                      ELSE {c.patient_id : c \in {c \in care_relationships :
                                                    /\ c.tenant_id = tenantId
                                                    /\ c.practitioner_id = user.practitionerId
                                                    /\ c.active}}
      ops2 == ops1 \o (IF isPractitioner
                         THEN <<DbOp("care_relationships", "select", tenantId)>> ELSE <<>>)
      matching == {r \in obs :
                 /\ r.tenant_id = tenantId
                 /\ \E p \in pats : p.id = r.patient_id
                 /\ (user.role = "patient" /\ user.patientId # NONE) => r.patient_id = user.patientId
                 /\ isPractitioner => r.patient_id \in carePatients}
      rows == Page(matching, ObservationUuids, count, searchParams)
      ops3 == ops2 \o <<DbOp("observations", "select", tenantId),
                        RangeOp("observations", 0, count - 1)>>
  IN IF isPractitioner /\ carePatients = {}
       THEN Result(buildSearchBundle({}), pats, obs, ops2)
     ELSE IF selectFails THEN Result(fhirError(500), pats, obs, ops3)
     ELSE Result(buildSearchBundle({toFhirObservation_c(r) : r \in rows}), pats, obs, ops3)

read_observation_c(id, user, tenantId, selectFails, pats, obs) ==
  LET ops == <<HandlerOp("Observation", "read")>> \o createTenantClient(user)
               \o <<DbOp("observations", "select", tenantId)>>
      found == Single({r \in obs : r.tenant_id = tenantId /\ r.resource_id = id}, selectFails)
  IN IF found.error \/ found.rows = {} THEN Result(fhirError(404), pats, obs, ops)
     ELSE LET data == TheRow(found)
              ops2 == ops \o canAccessPatientOps(user)
          IN IF ~canAccessPatient(user, data.patient_id, selectFails)
               THEN Result(fhirError(403), pats, obs, ops2)
               ELSE Result(fhirResponse_c(toFhirObservation_c(data), 200), pats, obs, ops2)

create_observation_c(resource, user, tenantId, selectFails, writeFails, pats, obs) ==
  LET ops0 == <<HandlerOp("Observation", "create")>>
  IN IF resource.resourceType # "Observation" THEN Result(fhirError(400), pats, obs, ops0)
     ELSE IF resource.status = NONE THEN Result(fhirError(400), pats, obs, ops0)
     ELSE IF resource.code = NONE THEN Result(fhirError(400), pats, obs, ops0)
     ELSE IF resource.subject = NONE THEN Result(fhirError(400), pats, obs, ops0)
     ELSE
       LET row0 == toDbRow_observation(resource, tenantId, selectFails, pats, obs)
           observation == [resource EXCEPT !.id = row0.resource_id,
                                           !.meta = [resource.meta EXCEPT !.present = TRUE,
                                                        !.profile = getProfile(resource)]]
           row == [row0 EXCEPT !.resource = observation]
           ops1 == ops0 \o createTenantClient(user) \o toDbRowOps(resource, tenantId)
       IN IF row0 = NoRow THEN Result(fhirError(400), pats, obs, ops1)
          ELSE
            LET ops2 == ops1 \o canAccessPatientOps(user)
            IN IF ~canAccessPatient(user, row.patient_id, selectFails)
                 THEN Result(fhirError(403), pats, obs, ops2)
                 ELSE
                   LET ins == Insert(obs, ObservationUuids, row, writeFails)
                       ops3 == ops2 \o <<DbOp("observations", "insert", tenantId)>>
                   IN IF ins.error = "23505" THEN Result(fhirError(409), pats, obs, ops3)
                      ELSE IF ins.error # NONE THEN Result(fhirError(500), pats, obs, ops3)
                      ELSE Result(fhirCreated(toFhirObservation_c(TheRow(ins))),
                                  pats, ins.table, ops3)

update_observation_c(id, resource, user, tenantId, selectFails, writeFails, pats, obs) ==
  LET ops0 == <<HandlerOp("Observation", "update")>>
  IN IF resource.resourceType # "Observation" THEN Result(fhirError(400), pats, obs, ops0)
     ELSE IF resource.id # NONE /\ resource.id # id THEN Result(fhirError(400), pats, obs, ops0)
     ELSE
       LET observation == [resource EXCEPT !.id = id]
           ops1 == ops0 \o createTenantClient(user) \o <<DbOp("observations", "select", tenantId)>>
           found == Single({r \in obs : r.tenant_id = tenantId /\ r.resource_id = id}, selectFails)
       IN IF found.error \/ found.rows = {} THEN Result(fhirError(404), pats, obs, ops1)
          ELSE
            LET existing == TheRow(found)
                ops2 == ops1 \o canAccessPatientOps(user)
            IN IF ~canAccessPatient(user, existing.patient_id, selectFails)
                 THEN Result(fhirError(403), pats, obs, ops2)
                 ELSE
                   LET row == toDbRow_observation(observation, tenantId, selectFails, pats, obs)
                       ops3 == ops2 \o toDbRowOps(observation, tenantId)
                   IN IF row = NoRow THEN Result(fhirError(400), pats, obs, ops3)
                      ELSE
                        LET upd == Update(obs, existing.id,
                                          [row EXCEPT !.id = existing.id,
                                                      !.version_id = existing.version_id + 1],
                                          writeFails)
                            ops4 == ops3 \o <<DbOp("observations", "update", existing.tenant_id)>>
                        IN IF upd.error # NONE THEN Result(fhirError(500), pats, obs, ops4)
                           ELSE Result(fhirResponse_c(toFhirObservation_c(TheRow(upd)), 200),
                                       pats, upd.table, ops4)

\* hard delete
deleteObservation(id, user, tenantId, selectFails, writeFails, pats, obs) ==
  LET ops1 == <<HandlerOp("Observation", "delete")>> \o createTenantClient(user)
                \o <<DbOp("observations", "select", tenantId)>>
      found == Single({r \in obs : r.tenant_id = tenantId /\ r.resource_id = id}, selectFails)
  IN IF found.error \/ found.rows = {} THEN Result(fhirError(404), pats, obs, ops1)
     ELSE
       LET existing == TheRow(found)
           ops2 == ops1 \o canAccessPatientOps(user)
       IN IF ~canAccessPatient(user, existing.patient_id, selectFails)
            THEN Result(fhirError(403), pats, obs, ops2)
            ELSE
              LET del == Delete(obs, existing.id, writeFails)
                  ops3 == ops2 \o <<DbOp("observations", "delete", existing.tenant_id)>>
              IN IF del.error # NONE THEN Result(fhirError(500), pats, obs, ops3)
                 ELSE Result(fhirNoContent, pats, del.table, ops3)

\* ---------------------------------------------------------------- versioned stack: Patient handler
NL_CORE_PROFILES_Patient == "nl-core-Patient"

NL_CORE_PROFILES_Observation == "nl-core-Observation"

\* { resourceType, id: row.resource_id, meta: {...}, ...row.resource }: the keys
\* the stored resource has (id, meta when the client sent them) come last and win
SpreadResource(rt, row, profile) ==
  [row.resource EXCEPT
     !.resourceType = rt,
     !.id = IF row.resource.id # NONE THEN row.resource.id ELSE row.resource_id,
     !.meta = IF row.resource.meta.present THEN row.resource.meta
              ELSE RowMeta(row.version_id, profile)]

toFhirPatient(row) == SpreadResource("Patient", row, NL_CORE_PROFILES_Patient)

\* existingId || patient.id || crypto.randomUUID()
fromFhirPatient(patient, tenantId, existingId, pats) ==
  Row(NONE, tenantId,
      IF existingId # NONE THEN existingId
      ELSE IF patient.id # NONE THEN patient.id
      ELSE FirstUnused(GeneratedPatientIds, {r.resource_id : r \in pats}),
      1, ActiveOf(patient), NONE, patient)

searchPatients(searchParams, user, selectFails, pats, obs) ==
  LET count == IF searchParams.count # NONE THEN parseInt(searchParams.count).value ELSE 20
      ops == <<HandlerOp("Patient", "search"), DbOp("patients", "select", user.tenantId),
               RangeOp("patients", 0, count - 1)>>
      matching == {r \in pats :
                     /\ r.tenant_id = user.tenantId
                     /\ (user.role = "patient" /\ user.patientId # NONE) => r.id = user.patientId}
      rows == Page(matching, PatientUuids, count, searchParams)
  IN IF selectFails THEN Result(FhirErrors_serverError, pats, obs, ops)
     ELSE Result(bundleResponse({toFhirPatient(r) : r \in rows}), pats, obs, ops)

readPatient(id, user, selectFails, pats, obs) ==
  LET ops == <<HandlerOp("Patient", "read"), DbOp("patients", "select", user.tenantId)>>
      found == Single({r \in pats :
                         /\ r.tenant_id = user.tenantId
                         /\ r.resource_id = id
                         /\ (user.role = "patient" /\ user.patientId # NONE)
                              => r.id = user.patientId},
                      selectFails)
  IN IF found.error \/ found.rows = {} THEN Result(FhirErrors_notFound, pats, obs, ops)
     ELSE LET data == TheRow(found)
          IN Result(withVersionHeaders(fhirResponse_v(toFhirPatient(data), 200),
                                       String(data.version_id)),
                    pats, obs, ops)

createPatient(resource, user, writeFails, pats, obs) ==
  LET ops0 == <<HandlerOp("Patient", "create")>>
  IN IF resource.resourceType # "Patient" THEN Result(FhirErrors_badRequest, pats, obs, ops0)
     ELSE LET dbPatient == fromFhirPatient(resource, user.tenantId, NONE, pats)
              ins == Insert(pats, PatientUuids, [dbPatient EXCEPT !.version_id = 1], writeFails)
              ops == ops0 \o <<DbOp("patients", "insert", user.tenantId)>>
          IN IF ins.error # NONE THEN Result(FhirErrors_serverError, pats, obs, ops)
             ELSE Result(createdResponse(toFhirPatient(TheRow(ins))), ins.table, obs, ops)

updatePatient(id, resource, user, selectFails, writeFails, pats, obs) ==
  LET ops0 == <<HandlerOp("Patient", "update")>>
  IN IF resource.resourceType # "Patient" THEN Result(FhirErrors_badRequest, pats, obs, ops0)
     ELSE
       LET ops1 == ops0 \o <<DbOp("patients", "select", user.tenantId)>>
           found == Single({r \in pats : r.tenant_id = user.tenantId /\ r.resource_id = id},
                           selectFails)
       IN IF found.error \/ found.rows = {} THEN Result(FhirErrors_notFound, pats, obs, ops1)
          ELSE
            LET existing == TheRow(found)
                dbPatient == fromFhirPatient(resource, user.tenantId, id, pats)
                upd == Update(pats, existing.id,
                              [dbPatient EXCEPT !.id = existing.id,
                                                !.version_id = existing.version_id + 1],
                              writeFails)
                ops2 == ops1 \o <<DbOp("patients", "update", existing.tenant_id)>>
            IN IF upd.error # NONE THEN Result(FhirErrors_serverError, pats, obs, ops2)
               ELSE LET data == TheRow(upd)
                    IN Result(withVersionHeaders(fhirResponse_v(toFhirPatient(data), 200),
                                                 String(data.version_id)),
                              upd.table, obs, ops2)

\* ---------------------------------------------------------------- versioned stack: Observation handler
toFhirObservation(row) == SpreadResource("Observation", row, NL_CORE_PROFILES_Observation)

fromFhirObservation(observation, tenantId, patientId, existingId, obs) ==
  Row(NONE, tenantId,
      IF existingId # NONE THEN existingId
      ELSE IF observation.id # NONE THEN observation.id
      ELSE FirstUnused(GeneratedObservationIds, {r.resource_id : r \in obs}),
      1, TRUE, patientId, observation)

searchObservations(searchParams, user, selectFails, pats, obs) ==
  LET count == IF searchParams.count # NONE THEN parseInt(searchParams.count).value ELSE 20
      ops == <<HandlerOp("Observation", "search"), DbOp("observations", "select", user.tenantId),
               RangeOp("observations", 0, count - 1)>>
      matching == {r \in obs :
                     /\ r.tenant_id = user.tenantId
                     /\ (user.role = "patient" /\ user.patientId # NONE)
                          => r.patient_id = user.patientId}
      rows == Page(matching, ObservationUuids, count, searchParams)
  IN IF selectFails THEN Result(FhirErrors_serverError, pats, obs, ops)
     ELSE Result(bundleResponse({toFhirObservation(r) : r \in rows}), pats, obs, ops)

readObservation(id, user, selectFails, pats, obs) ==
  LET ops == <<HandlerOp("Observation", "read"), DbOp("observations", "select", user.tenantId)>>
      found == Single({r \in obs :
                         /\ r.tenant_id = user.tenantId
                         /\ r.resource_id = id
                         /\ (user.role = "patient" /\ user.patientId # NONE)
                              => r.patient_id = user.patientId},
                      selectFails)
  IN IF found.error \/ found.rows = {} THEN Result(FhirErrors_notFound, pats, obs, ops)
     ELSE LET data == TheRow(found)
          IN Result(withVersionHeaders(fhirResponse_v(toFhirObservation(data), 200),
                                       String(data.version_id)),
                    pats, obs, ops)

createObservation(resource, user, selectFails, writeFails, pats, obs) ==
  LET ops0 == <<HandlerOp("Observation", "create")>>
      patientId == extractPatientId(resource.subject)
  IN IF resource.resourceType # "Observation" THEN Result(FhirErrors_badRequest, pats, obs, ops0)
     ELSE IF patientId = NONE THEN Result(FhirErrors_badRequest, pats, obs, ops0)
     ELSE
       LET ops1 == ops0 \o <<DbOp("patients", "select", user.tenantId)>>
           pfound == Single({r \in pats : r.tenant_id = user.tenantId /\ r.resource_id = patientId},
                            selectFails)
       IN IF pfound.error \/ pfound.rows = {} THEN Result(FhirErrors_badRequest, pats, obs, ops1)
          ELSE
            LET patientData == TheRow(pfound)
                isPractitioner == user.role = "practitioner" /\ user.practitionerId # NONE
                careRelation == Single({c \in care_relationships :
                                          /\ c.tenant_id = user.tenantId
                                          /\ c.patient_id = patientData.id
                                          /\ c.practitioner_id = user.practitionerId
                                          /\ c.active},
                                       selectFails)
                ops2 == ops1 \o (IF isPractitioner
                                   THEN <<DbOp("care_relationships", "select", user.tenantId)>>
                                   ELSE <<>>)
            IN IF isPractitioner /\ (careRelation.error \/ careRelation.rows = {})
                 THEN Result(FhirErrors_forbidden, pats, obs, ops2)
                 ELSE
                   LET dbObservation == fromFhirObservation(resource, user.tenantId,
                                                            patientData.id, NONE, obs)
                       ins == Insert(obs, ObservationUuids,
                                     [dbObservation EXCEPT !.version_id = 1], writeFails)
                       ops3 == ops2 \o <<DbOp("observations", "insert", user.tenantId)>>
                   IN IF ins.error # NONE THEN Result(FhirErrors_serverError, pats, obs, ops3)
                      ELSE Result(createdResponse(toFhirObservation(TheRow(ins))),
                                  pats, ins.table, ops3)

updateObservation(id, resource, user, selectFails, writeFails, pats, obs) ==
  LET ops0 == <<HandlerOp("Observation", "update")>>
  IN IF resource.resourceType # "Observation" THEN Result(FhirErrors_badRequest, pats, obs, ops0)
     ELSE
       LET ops1 == ops0 \o <<DbOp("observations", "select", user.tenantId)>>
           found == Single({r \in obs : r.tenant_id = user.tenantId /\ r.resource_id = id},
                           selectFails)
       IN IF found.error \/ found.rows = {} THEN Result(FhirErrors_notFound, pats, obs, ops1)
          ELSE
            LET existing == TheRow(found)
            IN IF user.role = "patient" /\ user.patientId # existing.patient_id
                 THEN Result(FhirErrors_forbidden, pats, obs, ops1)
                 ELSE
                   LET dbObservation == fromFhirObservation(resource, user.tenantId,
                                                            existing.patient_id, id, obs)
                       upd == Update(obs, existing.id,
                                     [dbObservation EXCEPT !.id = existing.id,
                                                           !.version_id = existing.version_id + 1],
                                     writeFails)
                       ops2 == ops1 \o <<DbOp("observations", "update", existing.tenant_id)>>
                   IN IF upd.error # NONE THEN Result(FhirErrors_serverError, pats, obs, ops2)
                      ELSE LET data == TheRow(upd)
                           IN Result(withVersionHeaders(
                                       fhirResponse_v(toFhirObservation(data), 200),
                                       String(data.version_id)),
                                     pats, upd.table, ops2)

\* ---------------------------------------------------------------- catch-all stack: router
AuditRow(tenantId, userId, action, resourceType, resourceId, responseStatus) ==
  [tenant_id |-> tenantId, user_id |-> userId, action |-> action,
   resource_type |-> resourceType, resource_id |-> resourceId,
   response_status |-> responseStatus]

\* logAuditEvent: an insert through the admin client; a failure is swallowed
logAuditEvent(row, writeFails) ==
  [ops |-> <<DbOp("audit_logs", "insert", row.tenant_id)>>,
   rows |-> IF writeFails THEN <<>> ELSE <<row>>]

\* the outcome of a request
Outcome(resp, pats, obs, ops, audit, user, tenantId) ==
  [resp |-> resp, patients |-> pats, observations |-> obs, ops |-> ops,
   audit |-> audit, user |-> user, tenantId |-> tenantId]

\* resourceHandlers of the catch-all router whose module is part of the tree
resourceHandlers_c == {"Patient", "Observation"}

Dispatch_c(method, rtype, rid, body, searchParams, user, tenantId, fail, pats, obs) ==
  LET sf == fail = "select"
      wf == fail = "write"
  IN CASE method = "GET" /\ rid # NONE /\ rtype = "Patient" ->
            read_patient_c(rid, user, tenantId, sf, pats, obs)
       [] method = "GET" /\ rid # NONE /\ rtype = "Observation" ->
            read_observation_c(rid, user, tenantId, sf, pats, obs)
       [] method = "GET" /\ rid = NONE /\ rtype = "Patient" ->
            search_patient_c(searchParams, user, tenantId, sf, pats, obs)
       [] method = "GET" /\ rid = NONE /\ rtype = "Observation" ->
            search_observation_c(searchParams, user, tenantId, sf, pats, obs)
       [] method = "POST" /\ rtype = "Patient" ->
            create_patient_c(body, user, tenantId, wf, pats, obs)
       [] method = "POST" /\ rtype = "Observation" ->
            create_observation_c(body, user, tenantId, sf, wf, pats, obs)
       [] method = "PUT" /\ rid # NONE /\ rtype = "Patient" ->
            update_patient_c(rid, body, user, tenantId, sf, wf, pats, obs)
       [] method = "PUT" /\ rid # NONE /\ rtype = "Observation" ->
            update_observation_c(rid, body, user, tenantId, sf, wf, pats, obs)
       [] method = "DELETE" /\ rid # NONE /\ rtype = "Patient" ->
            deletePatient(rid, user, tenantId, sf, wf, pats, obs)
       [] method = "DELETE" /\ rid # NONE /\ rtype = "Observation" ->
            deleteObservation(rid, user, tenantId, sf, wf, pats, obs)
       [] OTHER -> Result(fhirError(400), pats, obs, <<>>)

\* a router whose audit call lets the failure of the insert escape: the
\* router's catch answers 500
handleFhirRequest_auditThrows(method, rtype, rid, user, tenantId, fail, authOps, r) ==
  IF fail \in {"write", "audit"}
    THEN Outcome(fhirError(500), r.patients, r.observations,
                 authOps \o r.ops \o <<DbOp("audit_logs", "insert", tenantId)>>, <<>>,
                 user, tenantId)
    ELSE Outcome(r.resp, r.patients, r.observations,
                 authOps \o r.ops \o <<DbOp("audit_logs", "insert", tenantId)>>,
                 <<AuditRow(tenantId, user.id, method, rtype, rid, r.resp.status)>>,
                 user, tenantId)

\* handleFhirRequest of the catch-all router, after the handler has responded:
\* the audit row of the request, then the handler's response
handleFhirRequest_audited(method, rtype, rid, user, tenantId, fail, authOps, r) ==
  LET a == logAuditEvent(AuditRow(tenantId, user.id, method, rtype, rid, r.resp.status),
                         fail \in {"write", "audit"})
  IN Outcome(r.resp, r.patients, r.observations, authOps \o r.ops \o a.ops, a.rows,
             user, tenantId)

\* handleFhirRequest of the catch-all router, once user and tenantId are known
handleFhirRequest_authenticated(method, rtype, rid, body, searchParams, fail, pats, obs, authOps, user, tenantId) ==
  IF ~hasScope_c(user, rtype, IF method = "GET" THEN "read" ELSE "write")
    THEN LET a == logAuditEvent(AuditRow(tenantId, user.id, "access_denied", rtype, rid, 403),
                                fail \in {"write", "audit"})
         IN Outcome(fhirError(403), pats, obs, authOps \o a.ops, a.rows, user, tenantId)
  ELSE IF rtype \notin resourceHandlers_c
    THEN Outcome(fhirError(404), pats, obs, authOps, <<>>, user, tenantId)
  ELSE IF method \in {"PUT", "DELETE"} /\ rid = NONE
    THEN Outcome(fhirError(400), pats, obs, authOps, <<>>, user, tenantId)
  ELSE handleFhirRequest_audited(method, rtype, rid, user, tenantId, fail, authOps,
         Dispatch_c(method, rtype, rid, body, searchParams, user, tenantId, fail, pats, obs))

\* handleFhirRequest of the catch-all router, from the answer of validateGatewayAuth
handleFhirRequest_validated(method, rtype, rid, headerTenant, body, searchParams, fail, pats, obs, auth) ==
  IF auth.user = NoUser
    THEN Outcome(fhirError(401), pats, obs, auth.ops, <<>>, NoUser, NONE)
  ELSE handleFhirRequest_authenticated(method, rtype, rid, body, searchParams, fail, pats, obs, auth.ops,
         auth.user, extractTenantId(headerTenant, auth.user))

\* parseFhirPath + handleFhirRequest of the catch-all router, path = version/rtype[/rid]
handleFhirRequest_c(method, version, rtype, rid, cred, reply, headerTenant, body, searchParams, fail, pats, obs) ==
  IF rtype = "metadata"
    THEN Outcome(getCapabilityStatement, pats, obs, <<CapabilityOp>>, <<>>, NoUser, NONE)
  ELSE IF version \notin SUPPORTED_VERSIONS
    THEN Outcome(fhirError(400), pats, obs, <<>>, <<>>, NoUser, NONE)
  ELSE handleFhirRequest_validated(method, rtype, rid, headerTenant, body, searchParams, fail, pats, obs,
         validateGatewayAuth_c(cred, reply, fail = "select"))

\* ---------------------------------------------------------------- versioned stack: route and router
\* handlers registered with registerResourceHandler: search, read, create, update
resourceHandlers_v == {"Patient", "Observation"}

handleFhirRequest_v(method, version, rtype, rid, body, searchParams, user, fail, pats, obs) ==
  LET sf == fail = "select"
      wf == fail = "write"
  IN
  IF version # "4_0_1" /\ version # "R4" THEN Result(FhirErrors_badRequest, pats, obs, <<>>)
  ELSE IF rtype \in {"metadata", "CapabilityStatement"}
    THEN Result(getCapabilityStatement, pats, obs, <<CapabilityOp>>)
  ELSE IF rtype \notin resourceHandlers_v
    THEN Result(FhirErrors_unsupportedResource, pats, obs, <<>>)
  ELSE
    CASE method = "GET" /\ rid # NONE /\ rtype = "Patient" -> readPatient(rid, user, sf, pats, obs)
      [] method = "GET" /\ rid # NONE /\ rtype = "Observation" ->
           readObservation(rid, user, sf, pats, obs)
      [] method = "GET" /\ rid = NONE /\ rtype = "Patient" -> searchPatients(searchParams, user, sf, pats, obs)
      [] method = "GET" /\ rid = NONE /\ rtype = "Observation" ->
           searchObservations(searchParams, user, sf, pats, obs)
      [] method = "POST" /\ rtype = "Patient" -> createPatient(body, user, wf, pats, obs)
      [] method = "POST" /\ rtype = "Observation" ->
           createObservation(body, user, sf, wf, pats, obs)
      [] method = "PUT" /\ rid = NONE -> Result(FhirErrors_badRequest, pats, obs, <<>>)
      [] method = "PUT" /\ rid # NONE /\ rtype = "Patient" ->
           updatePatient(rid, body, user, sf, wf, pats, obs)
      [] method = "PUT" /\ rid # NONE /\ rtype = "Observation" ->
           updateObservation(rid, body, user, sf, wf, pats, obs)
      [] method = "DELETE" /\ rid = NONE -> Result(FhirErrors_badRequest, pats, obs, <<>>)
      [] method = "DELETE" /\ rid # NONE -> Result(FhirErrors_methodNotAllowed, pats, obs, <<>>)
      [] OTHER -> Result(FhirErrors_methodNotAllowed, pats, obs, <<>>)

\* the route's return of the router's response, for an authorised user
Route_routed(user, authOps, r) ==
  Outcome(r.resp, r.patients, r.observations, authOps \o r.ops, <<>>, user, user.tenantId)

\* the route, from the answer of validateGatewayAuth
Route_validated(method, version, rtype, rid, body, searchParams, fail, pats, obs, auth) ==
  IF auth.user = NoUser
    THEN Outcome(FhirErrors_unauthorized, pats, obs, auth.ops, <<>>, NoUser, NONE)
  ELSE IF ~hasScope_v(auth.user, rtype, CASE method = "GET" -> "read"
                                          [] method = "DELETE" -> "delete"
                                          [] OTHER -> "write")
    THEN Outcome(FhirErrors_forbidden, pats, obs, auth.ops, <<>>, auth.user, auth.user.tenantId)
  ELSE Route_routed(auth.user, auth.ops,
         handleFhirRequest_v(method, version, rtype, rid, body, searchParams, auth.user, fail, pats, obs))

\* GET / POST / PUT / DELETE of app/api/fhir/[version]/[...path]/route.ts
Route_v(method, version, rtype, rid, reply, headerTenant, body, searchParams, fail, pats, obs) ==
  IF method = "GET" /\ rtype \in {"metadata", "CapabilityStatement"}
    THEN Outcome(getCapabilityStatement, pats, obs, <<CapabilityOp>>, <<>>, NoUser, NONE)
  ELSE Route_validated(method, version, rtype, rid, body, searchParams, fail, pats, obs,
         validateGatewayAuth_v(reply, headerTenant))

\* ---------------------------------------------------------------- requests
HeaderTenants == {NONE, "t2"}

\* the statements that fail while the request is served: none, every select,
\* every insert / update / delete, or the insert into audit_logs only
Fails == {"none", "select", "write", "audit"}

\* ids a URL may name
UrlIds(rtype) ==
  CASE rtype = "Patient" -> PatientRids
    [] rtype = "Observation" -> ObservationRids
    [] OTHER -> {}

PlainPatient == Resource("Patient", "p1", NoMeta, NONE, NONE, "x")

PlainObservation == Resource("Observation", "o1", NoMeta, NONE, "p1", "x")

\* bodies sent to a path: those of its type and one of the other type
BodiesFor(rtype) ==
  CASE rtype = "Patient" -> PatientBodies \cup {PlainObservation}
    [] rtype = "Observation" -> ObservationBodies \cup {PlainPatient}
    [] OTHER -> {PlainPatient}

\* the query string of a request: _count, and the order in which the rows'
\* last_updated happen to lie when the request is served
NoParams == [count |-> NONE, order |-> "created"]

Request(method, version, rtype, rid, cred, reply, headerTenant, body, fail, params) ==
  [method |-> method, version |-> version, rtype |-> rtype, rid |-> rid, cred |-> cred,
   reply |-> reply, headerTenant |-> headerTenant, body |-> body, fail |-> fail,
   params |-> params]

NoRequest == Request(NONE, NONE, NONE, NONE, NONE, GatewayFail, NONE, NoBody, NONE, NoParams)

Idle ==
  [req |-> NoRequest, user |-> NoUser, tenantId |-> NONE, resp |-> NoResponse,
   ops |-> <<>>, audit |-> <<>>]

NoCreate == [valid |-> FALSE, rtype |-> NONE, tenant |-> NONE, body |-> NoBody]

\* The requests the model draws from.  The gateway authenticates a request
\* only by a credential it was sent.  The X-Tenant-ID header is explored for
\* the super admin, the tenant admin, the patient and the user without
\* tenant; database failures for the tenant admin and the practitioner; an
\* unsupported version for the anonymous client, the tenant admin and the
\* patient; paths that name no resource table without header and failures;
\* a query string for searches of the tenant admin and the practitioner.
Explored(req) ==
  /\ req.cred = "none" => (req.reply = GatewayFail /\ req.headerTenant = NONE /\ req.fail = "none")
  /\ req.headerTenant # NONE => req.reply.id \in {"sa", "ta", "pa", "nt"}
  /\ req.fail # "none" => (req.reply.id \in {"ta", "pr"} /\ req.headerTenant = NONE)
  /\ req.version \notin SUPPORTED_VERSIONS =>
       /\ req.headerTenant = NONE /\ req.fail = "none"
       /\ req.reply.id \in {NONE, "ta", "pa"}
       /\ req.body \in {NoBody, PlainPatient}
  /\ req.rtype \notin {"Patient", "Observation"} => (req.headerTenant = NONE /\ req.fail = "none")
  /\ (req.method = "PUT" /\ req.rid = NONE) => req.body = PlainPatient
  /\ req.params # NoParams =>
       /\ req.method = "GET" /\ req.rid = NONE /\ req.rtype \in {"Patient", "Observation"}
       /\ req.version \in SUPPORTED_VERSIONS /\ req.headerTenant = NONE /\ req.fail = "none"
       /\ req.reply.id \in {"ta", "pr"}
       /\ req.params.order = "reversed" => req.params.count = "1"

Requests(method, fails, bodies, params) ==
  { req \in [method : {method}, version : Versions, rtype : PathTypes,
             rid : PatientRids \cup ObservationRids \cup {NONE}, cred : Creds,
             reply : GatewayReplies, headerTenant : HeaderTenants, body : bodies,
             fail : fails,
             params : params] :
      /\ req.rid \in UrlIds(req.rtype) \cup {NONE}
      /\ req.body \in BodiesFor(req.rtype) \cup {NoBody}
      /\ Explored(req) }

GetRequests ==
  Requests("GET", {"none", "select", "audit"}, {NoBody},
           [count : {NONE, "1", "200"}, order : {"created", "reversed"}])

PostRequests == {req \in Requests("POST", Fails, Bodies, {NoParams}) : req.rid = NONE}

PutRequests == Requests("PUT", Fails, Bodies, {NoParams})

DeleteRequests == Requests("DELETE", Fails, {NoBody}, {NoParams})

\* the server takes a request when it is idle
Arriving(requests) == IF last = Idle THEN requests ELSE {}

\* crypto.randomUUID() has an identifier left to hand out
CanGenerate(req) ==
  /\ (req.method = "POST" /\ req.body.id = NONE /\ req.body.resourceType = "Patient")
       => HasUnused(GeneratedPatientIds, {r.resource_id : r \in patients})
  /\ (req.method = "POST" /\ req.body.id = NONE /\ req.body.resourceType = "Observation")
       => HasUnused(GeneratedObservationIds, {r.resource_id : r \in observations})

WithinBounds(o) ==
  \A r \in o.patients \cup o.observations :
    r.version_id <= MaxVersion /\ r.tenant_id \in DataTenants

\* The deployed stack's answer to one request.
Serve(req) ==
  IF stack = "catchall"
    THEN handleFhirRequest_c(req.method, req.version, req.rtype, req.rid, req.cred,
                             req.reply, req.headerTenant, req.body, req.params, req.fail,
                             patients, observations)
    ELSE Route_v(req.method, req.version, req.rtype, req.rid, req.reply,
                 req.headerTenant, req.body, req.params, req.fail, patients, observations)

\* One request, from arrival to the computed response, on the deployed stack.
Handle(req) ==
  \E o \in (IF CanGenerate(req) THEN {Serve(req)} ELSE {}) :
     /\ WithinBounds(o)
     /\ patients' = o.patients
     /\ observations' = o.observations
     /\ last' = [req |-> req, user |-> [o.user EXCEPT !.scopes = {}], tenantId |-> o.tenantId,
                 resp |-> o.resp, ops |-> o.ops, audit |-> o.audit]
     /\ lastCreate' =
          IF o.resp.status = 201
            THEN [valid |-> TRUE, rtype |-> req.rtype, tenant |-> o.tenantId, body |-> o.resp.body]
          ELSE IF o.patients # patients \/ o.observations # observations THEN NoCreate
          ELSE lastCreate
     /\ UNCHANGED <<stack, rls, updating>>

Get == \E req \in Arriving(GetRequests) : Handle(req)

Post == \E req \in Arriving(PostRequests) : Handle(req)

Put == \E req \in Arriving(PutRequests) : Handle(req)

Delete_ == \E req \in Arriving(DeleteRequests) : Handle(req)

\* the response goes back to the client; nothing of the request is kept
Respond ==
  /\ last # Idle
  /\ last' = Idle
  /\ UNCHANGED <<stack, patients, observations, lastCreate, rls, updating>>

\* the requests the platform serves at the same time
Clients == {"c1", "c2", "c3"}

\* no update is running and none has been answered
NoUpdates ==
  [existing |-> [c \in Clients |-> {}], body |-> [c \in Clients |-> NoBody], reports |-> <<>>]

SeedPatient ==
  Row(PatientUuids[1], "t1", "p1", 1, TRUE, NONE, Resource("Patient", "p1", NoMeta, NONE, NONE, "x"))

Init ==
  /\ stack \in Stacks
  /\ patients = {SeedPatient}
  /\ observations = {}
  /\ last = Idle
  /\ lastCreate = NoCreate
  /\ rls = NoSelect
  /\ updating = NoUpdates

Next == Get \/ Post \/ Put \/ Delete_ \/ Respond

Spec == Init /\ [][Next]_vars

\* ---------------------------------------------------------------- a database session under row-level security
\* a session with some settings selects from a table that holds some row;
\* the columns a table does not have are NULL
SelectUnderRls ==
  /\ rls = NoSelect
  /\ \E table \in RlsTables :
     \E session \in {Session(t, r, g) : t \in Tenants \cup {""}, r \in UserRoles \cup {""},
                                         g \in {"pa", "pr", ""}} :
     \E row \in {RlsRow(t, i, p, q, g) :
                   t \in Tenants,
                   i \in IF table = "patients" THEN {"pu1", "pu2"} ELSE {NONE},
                   p \in IF table \in PatientLinkedTables \cup {"care_relationships"}
                           THEN {"pu1", "pu2"}
                         ELSE IF table = "user_mappings" THEN {"pu1", NONE} ELSE {NONE},
                   q \in IF table = "care_relationships" THEN {"pr1", "pr2"}
                         ELSE IF table = "user_mappings" THEN {"pr1", NONE} ELSE {NONE},
                   g \in IF table = "user_mappings" THEN {"pa", "pr"} ELSE {NONE}} :
       rls' = [table |-> table, session |-> session, row |-> row,
               visible |-> Visible(table, session, row)]
  /\ UNCHANGED <<stack, patients, observations, last, lastCreate, updating>>

\* the session ends
EndSession ==
  /\ rls # NoSelect
  /\ rls' = NoSelect
  /\ UNCHANGED <<stack, patients, observations, last, lastCreate, updating>>

RlsSpec == Init /\ [][SelectUnderRls \/ EndSession]_vars

\* ---------------------------------------------------------------- concurrent updates of a Patient
\* PUT Patient/p1 with a Patient body by the tenant admin of t1, first
\* statement: the select of the existing row; the handler then awaits the
\* update
BeginUpdate ==
  \E c \in Clients :
    /\ updating.existing[c] = {}
    /\ Len(updating.reports) + Cardinality({d \in Clients : updating.existing[d] # {}})
         < MaxUpdates
    /\ \E found \in {Single({r \in patients : r.tenant_id = "t1" /\ r.resource_id = "p1"}, FALSE)} :
         /\ ~found.error /\ found.rows # {}
         /\ \E body \in {b \in PatientBodies : b.id = "p1"} :
              updating' = [updating EXCEPT !.existing[c] = found.rows, !.body[c] = body]
    /\ UNCHANGED <<stack, patients, observations, last, lastCreate, rls>>

\* second statement: UPDATE ... SET version_id = existing.version_id + 1
\* WHERE id = existing.id RETURNING, one statement of the database, and the
\* response built from the row it returns; a failed statement is answered 500
WriteUpdate ==
  \E c \in Clients, writeFails \in BOOLEAN :
    /\ \E existing \in updating.existing[c] :
       \E upd \in {Update(patients, existing.id,
                           [(IF stack = "catchall"
                               THEN toDbRow_patient(updating.body[c], "t1", patients)
                               ELSE fromFhirPatient(updating.body[c], "t1", "p1", patients))
                              EXCEPT !.id = existing.id,
                                     !.version_id = existing.version_id + 1],
                           writeFails)} :
         /\ patients' = upd.table
         /\ updating' =
              [existing |-> [updating.existing EXCEPT ![c] = {}],
               body |-> [updating.body EXCEPT ![c] = NoBody],
               reports |->
                 IF upd.error # NONE THEN updating.reports
                 ELSE Append(updating.reports,
                        IF stack = "catchall"
                          THEN fhirResponse_c(toFhirPatient_c(TheRow(upd)), 200)
                          ELSE withVersionHeaders(fhirResponse_v(toFhirPatient(TheRow(upd)), 200),
                                                  String(TheRow(upd).version_id)))]
    /\ UNCHANGED <<stack, observations, last, lastCreate, rls>>

UpdateSpec == Init /\ [][BeginUpdate \/ WriteUpdate]_vars

\* ---------------------------------------------------------------- vocabulary of the properties
\* a request has been handled and its response is about to be returned
Handled == last # Idle

\* the request names a resource path, not the capability statement
ResourcePath == last.req.rtype \in {"Patient", "Observation", "Device"}

\* the gateway does not authenticate the request
GatewayRejects == last.req.cred = "none" \/ ~last.req.reply.ok

UnsupportedVersion == last.req.version \notin SUPPORTED_VERSIONS

\* the role/scope check of the deployed stack refuses the authenticated user
ScopeCheckFails ==
  /\ last.user # NoUser
  /\ IF stack = "catchall"
       THEN ~hasScope_c([last.user EXCEPT !.scopes = mapRoleToScopes(last.user.role)],
                        last.req.rtype, IF last.req.method = "GET" THEN "read" ELSE "write")
       ELSE ~hasScope_v(last.user, last.req.rtype,
                        CASE last.req.method = "GET" -> "read"
                          [] last.req.method = "DELETE" -> "delete"
                          [] OTHER -> "write")

OpsOfKind(ops, kind) == {i \in DOMAIN ops : ops[i].kind = kind}

TablesTouched(ops) == {ops[i].table : i \in OpsOfKind(ops, "db")}

ResourceTables == {"patients", "observations"}

\* ---------------------------------------------------------------- C1
\* C1 as stated, read for paths of a supported FHIR version: on a resource
\* path a request the gateway does not authenticate is answered 401 and one
\* the scope check refuses is answered 403, and in both cases no
\* resource-handler operation was invoked and no database statement was
\* issued for the request.
C1_AsStated ==
  (Handled /\ ResourcePath /\ ~UnsupportedVersion) =>
    /\ GatewayRejects =>
         /\ last.resp.status = 401
         /\ OpsOfKind(last.ops, "handler") = {} /\ OpsOfKind(last.ops, "db") = {}
    /\ ScopeCheckFails =>
         /\ last.resp.status = 403
         /\ OpsOfKind(last.ops, "handler") = {} /\ OpsOfKind(last.ops, "db") = {}

\* C1: on a resource path a request the gateway does not authenticate is
\* answered 401 (400 where the catch-all router rejects the FHIR version
\* before it authenticates) with no handler operation and no database
\* statement; a request the scope check refuses is answered 403 with no
\* handler operation and no statement on a resource table, and no row of
\* patients or observations changes; the catch-all stack has by then looked
\* the user up in user_mappings and appends an access_denied audit row.
C1_AuthShortCircuits ==
  [][ (Handled' /\ ResourcePath') =>
        /\ GatewayRejects' =>
             /\ last'.resp.status = IF stack = "catchall" /\ UnsupportedVersion' THEN 400 ELSE 401
             /\ OpsOfKind(last'.ops, "handler") = {} /\ OpsOfKind(last'.ops, "db") = {}
             /\ last'.audit = <<>>
             /\ patients' = patients /\ observations' = observations
        /\ ScopeCheckFails' =>
             /\ last'.resp.status = 403
             /\ OpsOfKind(last'.ops, "handler") = {}
             /\ TablesTouched(last'.ops) =
                  IF stack = "catchall" THEN {"user_mappings", "audit_logs"} ELSE {}
             /\ patients' = patients /\ observations' = observations ]_vars

\* a refused write on the catch-all stack that left its access_denied audit row
C1_Witness ==
  /\ Handled /\ ResourcePath /\ ScopeCheckFails
  /\ stack = "catchall"
  /\ last.resp.status = 403
  /\ Len(last.audit) = 1 /\ last.audit[1].action = "access_denied"

\* the resources a response carries: the entries of a searchset, else the body
Returned == IF last.resp.kind = "Bundle" THEN last.resp.entries ELSE {last.resp.body}

\* the FHIR form in which the deployed stack returns a stored row
FhirObservation(row) ==
  IF stack = "catchall" THEN toFhirObservation_c(row) ELSE toFhirObservation(row)

\* the stored rows of the table a resource type is kept in
TableOf(rtype, pats, obs) == IF rtype = "Patient" THEN pats ELSE obs

\* ---------------------------------------------------------------- C2
\* C2 as stated: a read by id or a search by a user with role patient
\* returns no Observation that belongs to a patient other than the user's
\* own patient record.
C2_AsStated ==
  (Handled /\ last.req.method = "GET" /\ last.req.rtype = "Observation"
     /\ last.user.role = "patient" /\ last.resp.status = 200) =>
    \A r \in observations :
      r.patient_id # last.user.patientId => FhirObservation(r) \notin Returned

\* ---------------------------------------------------------------- C3
\* C3 as stated, for requests that carry an X-Tenant-ID header: for an
\* authenticated user whose role is not super_admin every database
\* statement of the request is scoped to the tenantId the gateway reported
\* for the user, whatever the header holds.
C3_AsStated ==
  (Handled /\ last.user # NoUser /\ last.user.role # "super_admin"
     /\ last.req.headerTenant # NONE) =>
    \A i \in OpsOfKind(last.ops, "db") : last.ops[i].tenant = last.req.reply.tenantId

\* ---------------------------------------------------------------- C4
\* C4 as stated: a successful PUT of an existing resource leaves the stored
\* version_id exactly one greater than before, and the resource is returned
\* with that new version as its meta.versionId.
C4_AsStated ==
  [][ (Handled' /\ last'.req.method = "PUT" /\ last'.req.rtype \in {"Patient", "Observation"}
         /\ last'.resp.status = 200) =>
        \E old \in TableOf(last'.req.rtype, patients, observations) :
          \E new \in TableOf(last'.req.rtype, patients', observations') :
            /\ old.tenant_id = last'.tenantId /\ old.resource_id = last'.req.rid
            /\ new.id = old.id
            /\ new.version_id = old.version_id + 1
            /\ last'.resp.body.meta.versionId = String(new.version_id) ]_vars

\* ---------------------------------------------------------------- C5
\* the request reads, on a path of a supported version, in the tenant of the
\* last create and with no write since, the id that create returned; no
\* database statement fails
ReadsBackCreated ==
  /\ Handled /\ lastCreate.valid
  /\ last.req.method = "GET" /\ last.req.fail = "none" /\ ~UnsupportedVersion
  /\ last.req.rtype = lastCreate.rtype
  /\ last.req.rid = lastCreate.body.id
  /\ last.tenantId = lastCreate.tenant

\* C5: a Patient or Observation returned by an accepted create is returned
\* equal (same id, same meta.versionId, same client-supplied elements) by a
\* read of the returned id in the same tenant with no write in between:
\* every such read that is answered 200 carries the resource create
\* returned, and a super_admin or tenant_admin is always answered 200.
C5_CreateReadRoundTrip ==
  (ReadsBackCreated /\ (last.resp.status = 200 \/ last.user.role \in {"super_admin", "tenant_admin"}))
    => (last.resp.status = 200 /\ last.resp.body = lastCreate.body)

\* a practitioner reads back the Observation that was just created, with
\* the id, version 1 and the text the client sent
C5_Witness ==
  /\ ReadsBackCreated
  /\ last.req.rtype = "Observation" /\ last.user.role = "practitioner"
  /\ last.resp.status = 200
  /\ last.resp.body = lastCreate.body
  /\ last.resp.body.id = "o1" /\ last.resp.body.meta.versionId = "1" /\ last.resp.body.text = "x"

\* ---------------------------------------------------------------- C6
\* C6 as stated, read for a supported FHIR version: a GET of
\* {version}/metadata or {version}/CapabilityStatement is answered 200 with
\* a CapabilityStatement, with or without credentials, and the gateway is
\* not contacted.
C6_AsStated ==
  (Handled /\ last.req.method = "GET" /\ ~UnsupportedVersion
     /\ last.req.rtype \in {"metadata", "CapabilityStatement"}) =>
    /\ last.resp.status = 200
    /\ last.resp.kind = "CapabilityStatement"
    /\ OpsOfKind(last.ops, "gateway") = {}

\* ---------------------------------------------------------------- C7
\* the issue code the claim ties to a status
CodeTiedTo(status) ==
  CASE status = 400 -> "invalid"
    [] status = 401 -> "login"
    [] status = 403 -> "forbidden"
    [] status = 404 -> "not-found"
    [] status = 405 -> "not-supported"
    [] status = 409 -> "conflict"
    [] status = 500 -> "exception"
    [] OTHER -> NONE

\* C7 as stated: every response with status 400 or above is an
\* OperationOutcome with exactly one issue, whose code is the one tied to
\* the status and whose severity is fatal exactly when the status is 500 or
\* above.
C7_AsStated ==
  (Handled /\ last.resp.status >= 400) =>
    /\ last.resp.kind = "OperationOutcome"
    /\ Len(last.resp.issue) = 1
    /\ last.resp.issue[1].code = CodeTiedTo(last.resp.status)
    /\ (last.resp.issue[1].severity = "fatal") <=> (last.resp.status >= 500)

\* ---------------------------------------------------------------- C8
\* a statement of a Patient or Observation handler operation returned an
\* error: one was issued after the handler was entered, on a table other
\* than audit_logs, of the kind that fails for this request
HandlerStatementFailed ==
  \E h \in OpsOfKind(last.ops, "handler") : \E i \in OpsOfKind(last.ops, "db") :
    /\ i > h
    /\ last.ops[i].table # "audit_logs"
    /\ \/ last.req.fail = "select" /\ last.ops[i].verb = "select"
       \/ last.req.fail = "write" /\ last.ops[i].verb \in {"insert", "update", "delete"}

\* C8 as stated: whenever a database statement issued by a Patient or
\* Observation handler operation returns an error, the request is answered
\* with status 500.
C8_AsStated == (Handled /\ HandlerStatementFailed) => last.resp.status = 500

\* ---------------------------------------------------------------- C9
\* the gateway authenticates the request as a user with one of the roles
SentByRole(req, roles) == req.cred # "none" /\ req.reply.ok /\ req.reply.role \in roles

\* a write request on a resource path of a supported version
WriteRequest(req) ==
  /\ req.method \in {"POST", "PUT", "DELETE"}
  /\ req.rtype \in {"Patient", "Observation", "Device"}
  /\ req.version \in SUPPORTED_VERSIONS

\* C9 as stated, read for resource paths of a supported version: every POST,
\* PUT or DELETE by a user with role patient, researcher or dev is answered
\* 403 and inserts, updates or deletes no row.
C9_AsStated ==
  [][ (Handled' /\ WriteRequest(last'.req)
         /\ SentByRole(last'.req, {"patient", "researcher", "dev"})) =>
        /\ last'.resp.status = 403
        /\ patients' = patients /\ observations' = observations
        /\ last'.audit = <<>> ]_vars

\* C9: every POST, PUT or DELETE by a user with role patient, researcher or
\* dev on a resource path is refused with 403 (400 where the catch-all
\* router rejects the FHIR version first), invokes no handler operation,
\* issues no statement on a resource table and changes no row of patients or
\* observations; on the catch-all stack a 403 appends one access_denied row
\* to audit_logs and nothing else.
C9_ReadOnlyRoles ==
  [][ (Handled' /\ last'.req.method \in {"POST", "PUT", "DELETE"} /\ ResourcePath'
         /\ SentByRole(last'.req, {"patient", "researcher", "dev"})) =>
        /\ last'.resp.status = IF stack = "catchall" /\ UnsupportedVersion' THEN 400 ELSE 403
        /\ OpsOfKind(last'.ops, "handler") = {}
        /\ TablesTouched(last'.ops) \cap ResourceTables = {}
        /\ patients' = patients /\ observations' = observations
        /\ last'.audit =
             IF stack = "catchall" /\ ~UnsupportedVersion'
               THEN <<AuditRow(last'.tenantId, last'.req.reply.id, "access_denied",
                               last'.req.rtype, last'.req.rid, 403)>>
               ELSE <<>> ]_vars

\* a patient's PUT on an existing Patient is refused and the row is as before
C9_Witness ==
  /\ Handled /\ last.req.method = "PUT" /\ last.req.rtype = "Patient" /\ last.req.rid = "p1"
  /\ SentByRole(last.req, {"patient"})
  /\ last.resp.status = 403
  /\ \E r \in patients : r.resource_id = "p1" /\ r.version_id = 1

\* ---------------------------------------------------------------- C10
\* C10 as stated, read for a DELETE that names a resource on a path of a
\* supported version: every DELETE by a user with role practitioner is
\* answered 403 and the targeted resource remains stored and unchanged.
C10_AsStated ==
  [][ (Handled' /\ last'.req.method = "DELETE" /\ WriteRequest(last'.req)
         /\ last'.req.rid # NONE /\ SentByRole(last'.req, {"practitioner"})) =>
        /\ last'.resp.status = 403
        /\ patients' = patients /\ observations' = observations ]_vars

\* ---------------------------------------------------------------- C11
\* an active care relationship ties the practitioner to the patient row
InCare(tenantId, practitionerId, patientRowId) ==
  \E c \in care_relationships :
    /\ c.tenant_id = tenantId /\ c.practitioner_id = practitionerId
    /\ c.patient_id = patientRowId /\ c.active

\* C11 as stated: a POST or PUT of an Observation by a practitioner inserts
\* or changes an Observation row only of a patient with whom the
\* practitioner has an active care relationship; for any other patient the
\* request is answered 403 and the observations table is as before.
C11_AsStated ==
  [][ (Handled' /\ last'.req.method \in {"POST", "PUT"} /\ last'.req.rtype = "Observation"
         /\ last'.user.role = "practitioner") =>
        /\ \A r \in (observations' \ observations) \cup (observations \ observations') :
             InCare(last'.tenantId, last'.user.practitionerId, r.patient_id)
        /\ \A old \in observations :
             (/\ last'.req.method = "PUT" /\ old.resource_id = last'.req.rid
              /\ old.tenant_id = last'.tenantId
              /\ last'.req.body.resourceType = "Observation"
              /\ last'.req.fail = "none"
              /\ ~InCare(last'.tenantId, last'.user.practitionerId, old.patient_id))
               => last'.resp.status = 403 ]_vars

\* ---------------------------------------------------------------- C12
\* C12 as stated: a session whose role is anything other than super_admin
\* selects a row of a tenant-scoped table only if the row's tenant_id
\* equals the session's current tenant.
C12_AsStated ==
  (rls.table \in RlsTables /\ rls.visible /\ current_user_role(rls.session) # "super_admin")
    => rls.row.tenant_id = current_tenant_id(rls.session)

\* ---------------------------------------------------------------- C13
\* C13 as stated: on every request that reaches a resource handler, the
\* session context of the authenticated user is set (set_config with the
\* user's tenant) after the handler is entered and before its first
\* statement on a table.
C13_AsStated ==
  Handled =>
    \A h \in OpsOfKind(last.ops, "handler") : \A i \in OpsOfKind(last.ops, "db") :
      (i > h /\ last.ops[i].table \notin {"set_config", "audit_logs"}) =>
        \E j \in OpsOfKind(last.ops, "db") :
          /\ h < j /\ j < i
          /\ last.ops[j].table = "set_config"
          /\ last.ops[j].tenant = last.user.tenantId

\* ---------------------------------------------------------------- C14
\* C14 as stated: every read by id and every update answered 200 carries
\* the ETag W/"v" where v is the meta.versionId of the returned resource and
\* the version_id stored for the resource.
C14_AsStated ==
  (Handled /\ last.req.rtype \in {"Patient", "Observation"} /\ last.req.rid # NONE
     /\ last.req.method \in {"GET", "PUT"} /\ last.resp.status = 200) =>
    \E row \in TableOf(last.req.rtype, patients, observations) :
      /\ row.tenant_id = last.tenantId /\ row.resource_id = last.req.rid
      /\ last.resp.etag = ETag(String(row.version_id))
      /\ last.resp.body.meta.versionId = String(row.version_id)

\* ---------------------------------------------------------------- C15
\* C15 as stated: a search answered 200 returns at most _count resources,
\* and the page the server asks the database for holds _count rows, where
\* _count is 20 when the parameter is absent and the client's value cut
\* off at 100 otherwise.
C15_AsStated ==
  (Handled /\ last.req.method = "GET" /\ last.req.rid = NONE
     /\ last.req.rtype \in {"Patient", "Observation"} /\ last.resp.status = 200) =>
    LET sent == parseInt(last.req.params.count).value
        count == IF last.req.params.count = NONE THEN 20
                 ELSE IF sent > 100 THEN 100 ELSE sent
    IN /\ Cardinality(last.resp.entries) <= count
       /\ \A i \in OpsOfKind(last.ops, "range") :
            last.ops[i].to - last.ops[i].from + 1 = count

\* ---------------------------------------------------------------- C16
\* C16 as stated: a create that reaches the insert, with no database
\* failure, for a resource id already stored for the type in the tenant is
\* answered 409, and the stored rows are as before.
C16_AsStated ==
  [][ (/\ Handled' /\ last'.req.method = "POST" /\ last'.req.fail = "none"
       /\ last'.req.rtype \in {"Patient", "Observation"}
       /\ \E i \in OpsOfKind(last'.ops, "db") :
            /\ last'.ops[i].verb = "insert"
            /\ last'.ops[i].table = IF last'.req.rtype = "Patient" THEN "patients"
                                    ELSE "observations"
       /\ \E row \in TableOf(last'.req.rtype, patients, observations) :
            row.tenant_id = last'.tenantId /\ row.resource_id = last'.req.body.id) =>
        /\ last'.resp.status = 409
        /\ patients' = patients /\ observations' = observations ]_vars

\* ---------------------------------------------------------------- C17
\* C17 as stated: a read by id answered 200 returns a resource whose id is
\* the id of the URL, also after updates; and a PUT whose body carries
\* another id than the URL changes a row only when it is answered 200, in
\* which case the resource it returns carries the id of the URL.
C17_AsStated ==
  [][ (Handled' /\ last'.req.rtype \in {"Patient", "Observation"} /\ last'.req.rid # NONE) =>
        /\ (last'.req.method = "GET" /\ last'.resp.status = 200)
             => last'.resp.body.id = last'.req.rid
        /\ (last'.req.method = "PUT" /\ last'.req.body.id \notin {NONE, last'.req.rid}) =>
             /\ last'.resp.status = 200 => last'.resp.body.id = last'.req.rid
             /\ last'.resp.status # 200 => (patients' = patients /\ observations' = observations)
      ]_vars

\* ---------------------------------------------------------------- C18
\* C18: a DELETE of a Patient that is answered with a 2xx status is answered
\* 204 and removes no row: the addressed row stays, with active = false and
\* the resource it held, and every other row is as before; and a Patient
\* search answered 200 returns no patient whose row is inactive.
C18_SoftDelete ==
  [][ (Handled' /\ last'.req.rtype = "Patient") =>
        /\ (last'.req.method = "DELETE" /\ last'.resp.status \in 200..299) =>
             /\ last'.resp.status = 204
             /\ observations' = observations
             /\ \E old \in patients : \E new \in patients' :
                  /\ old.tenant_id = last'.tenantId /\ old.resource_id = last'.req.rid
                  /\ new.id = old.id /\ new.resource_id = old.resource_id
                  /\ new.resource = old.resource
                  /\ ~new.active
                  /\ patients' \ {new} = patients \ {old}
        /\ (last'.req.method = "GET" /\ last'.req.rid = NONE /\ last'.resp.status = 200) =>
             \A e \in last'.resp.entries : \A r \in patients' :
               (r.tenant_id = last'.tenantId /\ r.resource_id = e.id) => r.active ]_vars

\* a search after a delete: the deleted patient's row is there, inactive,
\* and the search returns the other patient only
C18_Witness ==
  /\ Handled /\ last.req.method = "GET" /\ last.req.rtype = "Patient" /\ last.req.rid = NONE
  /\ last.resp.status = 200
  /\ \E r \in patients : r.resource_id = "p1" /\ ~r.active /\ r.tenant_id = last.tenantId
  /\ {e.id : e \in last.resp.entries} = {"p2"}

\* ---------------------------------------------------------------- C19
\* the request was served while the insert into audit_logs, and that
\* statement only, fails
AuditFails == Handled /\ last.req.fail = "audit"

\* C19: a failure of the audit insert changes neither the response nor the
\* stored rows of the request being audited: status, body and rows are
\* those of the same request served with no failure, no audit row is kept,
\* and the response is not the router's 500 for an escaped exception unless
\* the request is answered 500 without the failure too.
C19_AuditFailureSwallowed ==
  [][ AuditFails' =>
        \E o \in {Serve([last'.req EXCEPT !.fail = "none"])} :
          /\ last'.resp = o.resp
          /\ patients' = o.patients /\ observations' = o.observations
          /\ last'.ops = o.ops
          /\ last'.audit = <<>> ]_vars

\* a create on the catch-all stack whose audit insert failed: answered 201
\* with the created resource, audit_logs got no row
C19_Witness ==
  /\ AuditFails /\ stack = "catchall"
  /\ last.req.method = "POST" /\ last.resp.status = 201 /\ last.resp.body.id = "p2"
  /\ \E i \in OpsOfKind(last.ops, "db") : last.ops[i].table = "audit_logs"
  /\ last.audit = <<>>
  /\ \E r \in patients : r.resource_id = "p2"

\* ---------------------------------------------------------------- C20
\* the gateway reply names no user id or no tenantId
ReplyIncomplete ==
  last.req.reply.ok /\ (last.req.reply.id = NONE \/ last.req.reply.tenantId = NONE)

\* C20 as stated, read for resource paths of a supported FHIR version: a
\* request without credential, one the gateway fails or refuses, and one
\* whose gateway reply lacks id or tenantId all get no user and are answered
\* 401, and without credential the gateway is not contacted.
C20_AsStated ==
  (Handled /\ ResourcePath /\ ~UnsupportedVersion) =>
    /\ (GatewayRejects \/ ReplyIncomplete) =>
         (last.user = NoUser /\ last.resp.status = 401)
    /\ last.req.cred = "none" => OpsOfKind(last.ops, "gateway") = {}

\* ---------------------------------------------------------------- C21
\* the gateway authenticated the request with a role that is none of the
\* six known roles
UnrecognisedRole ==
  Handled /\ last.user # NoUser /\ last.req.reply.ok /\ last.req.reply.role \notin UserRoles

ScopedTypes == {"Patient", "Observation", "Condition", "Device"}

\* the (resource type, action) pairs the scope check of the deployed stack
\* permits to the user, were its role the given one
PermittedAs(user, role) ==
  IF stack = "catchall"
    THEN {p \in ScopedTypes \X {"read", "write"} :
            hasScope_c([user EXCEPT !.role = role, !.scopes = mapRoleToScopes(role)], p[1], p[2])}
    ELSE {p \in ScopedTypes \X {"read", "write", "delete"} :
            hasScope_v([user EXCEPT !.role = role], p[1], p[2])}

\* C21 as stated: the pairs permitted to the user the server builds from a
\* gateway reply with an unrecognised role are permitted to every known
\* non-patient role as well, and none of them is a write.
C21_AsStated ==
  UnrecognisedRole =>
    /\ \A role \in UserRoles \ {"patient"} :
         PermittedAs(last.user, last.user.role) \subseteq PermittedAs(last.user, role)
    /\ \A p \in PermittedAs(last.user, last.user.role) : p[2] = "read"

\* ---------------------------------------------------------------- C22
\* C22 as stated: a request whose version segment is neither 4_0_1 nor R4
\* is answered 400, and neither a resource-handler operation nor the
\* generation of the CapabilityStatement runs for it.
C22_AsStated ==
  (Handled /\ UnsupportedVersion) =>
    /\ last.resp.status = 400
    /\ OpsOfKind(last.ops, "handler") = {}
    /\ OpsOfKind(last.ops, "capability") = {}

\* ---------------------------------------------------------------- C23
\* the versionId a successful update reported: that of its ETag
ReportedVersions == [i \in DOMAIN updating.reports |-> updating.reports[i].etag]

====
